---- MODULE Spec2Model ----
(***************************************************************************)
(* A model of the HTTP server of src/unnamed/part_000: the promise-based   *)
(* socket wrapper (socketInit, socketRead, socketWrite), the dynamic       *)
(* buffer, the header framing and parsing, the body readers, the response  *)
(* writer and the per-connection serve loop (serveClient, handleNewConn).  *)
(*                                                                         *)
(* Bytes are one-character strings and a Buffer is a sequence of them, so  *)
(* that every index computed by the code is an index of the model.  Only   *)
(* ASCII bytes occur, for which Buffer.toString() is the identity.         *)
(***************************************************************************)
EXTENDS Integers, Sequences, FiniteSets, TLC

\* ------------------------------------------------------------------ bytes

\* A string literal as a Buffer (Buffer.from("...")).
B(s) == [i \in 1..Len(s) |-> SubSeq(s, i, i)]

CR == "\r"
LF == "\n"
CRLF == <<CR, LF>>

SetMin(S) == CHOOSE x \in S : \A y \in S : x <= y

MinOf(a, b) == IF a <= b THEN a ELSE b

MaxOf(a, b) == IF a >= b THEN a ELSE b

\* Buffer.indexOf / String.indexOf: offset (from 0) of the first occurrence
\* of pat at or after start, -1 when there is none.
IndexOf(buf, pat, start) ==
    LET cands == {i \in start..(Len(buf) - Len(pat)) :
                     SubSeq(buf, i + 1, i + Len(pat)) = pat}
    IN IF cands = {} THEN -1 ELSE SetMin(cands)

\* buf.subarray(from, to), offsets from 0, to exclusive.
Subarray(buf, from, to) == SubSeq(buf, from + 1, to)

UpperCase == B("ABCDEFGHIJKLMNOPQRSTUVWXYZ")
LowerCase == B("abcdefghijklmnopqrstuvwxyz")
DigitChars == B("0123456789")

\* String.prototype.toLowerCase, on ASCII.
toLowerChar(c) ==
    IF \E i \in 1..26 : UpperCase[i] = c
    THEN LowerCase[CHOOSE i \in 1..26 : UpperCase[i] = c]
    ELSE c

toLowerCase(s) == [i \in 1..Len(s) |-> toLowerChar(s[i])]

\* The white space String.prototype.trim removes (the ASCII part of it).
WhiteSpace == {" ", "\t", "\n", "\r", "\f"}

RECURSIVE TrimStart(_)
TrimStart(s) ==
    IF s # <<>> /\ Head(s) \in WhiteSpace THEN TrimStart(Tail(s)) ELSE s

RECURSIVE TrimEnd(_)
TrimEnd(s) ==
    IF s # <<>> /\ s[Len(s)] \in WhiteSpace
    THEN TrimEnd(SubSeq(s, 1, Len(s) - 1))
    ELSE s

\* String.prototype.trim
Trim(s) == TrimEnd(TrimStart(s))

\* String.prototype.split(sep) for a one-character separator: the pieces
\* between the separators, empty pieces included.
RECURSIVE Split(_, _)
Split(s, sep) ==
    LET i == IndexOf(s, <<sep>>, 0)
    IN IF i < 0
       THEN <<s>>
       ELSE <<Subarray(s, 0, i)>> \o Split(Subarray(s, i + 1, Len(s)), sep)

\* Array.prototype.join(): the pieces with "," between them.
RECURSIVE Join(_)
Join(parts) ==
    IF parts = <<>> THEN <<>>
    ELSE IF Len(parts) = 1 THEN parts[1]
    ELSE parts[1] \o <<",">> \o Join(Tail(parts))

\* Number to its decimal text, as a template literal prints a
\* non-negative integer.
RECURSIVE DecStr(_)
DecStr(n) ==
    IF n < 10 THEN <<DigitChars[n + 1]>>
    ELSE DecStr(n \div 10) \o <<DigitChars[(n % 10) + 1]>>

DigitValue(c) == (CHOOSE i \in 1..10 : DigitChars[i] = c) - 1

RECURSIVE DigitsValue(_, _)
DigitsValue(s, acc) ==
    IF s = <<>> \/ ~(\E i \in 1..10 : DigitChars[i] = Head(s))
    THEN acc
    ELSE DigitsValue(Tail(s), acc * 10 + DigitValue(Head(s)))

\* parseInt(text): leading white space skipped, an optional sign, then the
\* longest run of decimal digits; NaN (nan = TRUE) when there is no digit.
parseInt(s) ==
    LET t == TrimStart(s)
        neg == t # <<>> /\ Head(t) = "-"
        u == IF t # <<>> /\ Head(t) \in {"-", "+"} THEN Tail(t) ELSE t
    IN IF u = <<>> \/ ~(\E i \in 1..10 : DigitChars[i] = Head(u))
       THEN [nan |-> TRUE, val |-> 0]
       ELSE [nan |-> FALSE,
             val |-> IF neg THEN 0 - DigitsValue(u, 0) ELSE DigitsValue(u, 0)]

\* ----------------------------------------------------------------- errors

NoError == [kind |-> "none", statusCode |-> 0, message |-> <<>>]

\* new HTTPError(statusCode, message)
HTTPError(statusCode, message) ==
    [kind |-> "HTTPError", statusCode |-> statusCode, message |-> B(message)]

\* An exception that is no HTTPError: a TypeError of the runtime, the
\* Error of the body reader, the Error a socket rejects a promise with.
PlainError(kind, message) ==
    [kind |-> kind, statusCode |-> 0, message |-> B(message)]

\* --------------------------------------------------------------- framing

\* The value of a destructured array element that does not exist.
Undefined == <<"undefined">>

findDelimiter(buf, start) ==
    LET crlf == IndexOf(buf, CRLF, start)
        cr == IndexOf(buf, <<CR>>, start)
        lf == IndexOf(buf, <<LF>>, start)
    IN IF crlf >= 0 THEN <<crlf, 2>>
       ELSE IF cr >= 0 THEN <<cr, 1>>
       ELSE IF lf >= 0 THEN <<lf, 1>>
       ELSE <<-1, 0>>

RECURSIVE splitLinesFrom(_, _)
splitLinesFrom(buf, start) ==
    LET d == findDelimiter(buf, start)
        next == d[1]
        delimOffset == d[2]
    IN IF next = -1
       THEN LET chunk == Subarray(buf, start, Len(buf))
            IN IF chunk = <<>> THEN <<>> ELSE <<chunk>>
       ELSE <<Subarray(buf, start, next)>>
                \o splitLinesFrom(buf, next + delimOffset)

splitLines(buf) == splitLinesFrom(buf, 0)

\* [method, uri, version] of a start line; ok = FALSE when Buffer.from(uri)
\* throws its TypeError because the line has no second token.
parseRequestLine(reqLine) ==
    LET parsed == Split(reqLine, " ")
    IN [ok |-> Len(parsed) >= 2,
        method |-> parsed[1],
        uri |-> IF Len(parsed) >= 2 THEN parsed[2] ELSE Undefined,
        version |-> IF Len(parsed) >= 3 THEN parsed[3] ELSE Undefined]

\* The characters node:http's validateHeaderName accepts (an HTTP token);
\* of the token characters the quote, the star and the backquote are left
\* out: no input of the model holds them.
TokenChars ==
    {UpperCase[i] : i \in 1..26} \cup {LowerCase[i] : i \in 1..26}
        \cup {DigitChars[i] : i \in 1..10}
        \cup {"!", "#", "$", "%", "&", "+", "-", ".", "^", "_", "|", "~"}

\* The control characters validateHeaderValue rejects (tab is allowed).
ControlChars == {"\r", "\n", "\f"}

validateHeaderName(name) ==
    name # <<>> /\ \A i \in 1..Len(name) : name[i] \in TokenChars

validateHeaderValue(value) ==
    \A i \in 1..Len(value) : value[i] \notin ControlChars

validateHeader(headerField) ==
    LET fieldTokens == Split(headerField, ":")
        headerName == Trim(fieldTokens[1])
        headerValue == Trim(Join(Tail(fieldTokens)))
    IN validateHeaderName(headerName) /\ validateHeaderValue(headerValue)

NoMsg == [method |-> <<>>, uri |-> <<>>, version |-> <<>>, headers |-> <<>>]

\* parseHTTPReq whose loop stops one field early.
parseHTTPReqSkipsLastField(data) ==
    LET lines == splitLines(data)
        line == parseRequestLine(lines[1])
        fields == SubSeq(lines, 2, Len(lines) - 1)
    IN IF ~line.ok
       THEN [error |-> PlainError("TypeError", "uri"),
             msg |-> NoMsg]
       ELSE IF \E i \in 1..(Len(fields) - 1) : ~validateHeader(fields[i])
       THEN [error |-> HTTPError(400, "Bad field."), msg |-> NoMsg]
       ELSE [error |-> NoError,
             msg |-> [method |-> line.method, uri |-> line.uri,
                      version |-> line.version, headers |-> fields]]

\* parseHTTPReq: the parsed request, or the exception it throws.
parseHTTPReq(data) ==
    LET lines == splitLines(data)
        line == parseRequestLine(lines[1])
        fields == SubSeq(lines, 2, Len(lines) - 1)
    IN IF ~line.ok
       THEN [error |-> PlainError("TypeError", "uri"),
             msg |-> NoMsg]
       ELSE IF \E i \in 1..Len(fields) : ~validateHeader(fields[i])
       THEN [error |-> HTTPError(400, "Bad field."), msg |-> NoMsg]
       ELSE [error |-> NoError,
             msg |-> [method |-> line.method, uri |-> line.uri,
                      version |-> line.version, headers |-> fields]]

\* ---------------------------------------------------------- field lookup

FieldNull == [tag |-> "null", value |-> <<>>]

\* getField: the loop runs i from 1 while i < headers.length - 1, on an
\* array indexed from 0: elements 2 .. Len - 1 of the sequence.  tag is
\* "throw" when split(":")[1] is undefined and .trim() throws.
getField(headers, key) ==
    LET hits == {i \in 2..(Len(headers) - 1) :
                    toLowerCase(key)
                        = toLowerCase(Trim(Split(headers[i], ":")[1]))}
    IN IF hits = {} THEN FieldNull
       ELSE LET parts == Split(headers[SetMin(hits)], ":")
            IN IF Len(parts) < 2
               THEN [tag |-> "throw", value |-> <<>>]
               ELSE [tag |-> "value", value |-> Trim(parts[2])]

\* ----------------------------------------------------------- body reader

\* readerFromReq that takes a request without a length for one without a
\* body, for any method.
readerFromReqLenient(req) ==
    LET contentLen == getField(req.headers, B("Content-Length"))
        parsed == parseInt(contentLen.value)
    IN IF contentLen.tag = "value" /\ parsed.nan
       THEN [error |-> HTTPError(400, "Bad Content-Length."), length |-> -1]
       ELSE [error |-> NoError,
             length |-> IF contentLen.tag = "value" THEN MaxOf(parsed.val, 0) ELSE 0]

\* readerFromReq: the declared length of the fixed-length reader it
\* returns, or the exception it throws.
readerFromReq(req) ==
    LET contentLen == getField(req.headers, B("Content-Length"))
        parsed == parseInt(contentLen.value)
        bodyLen == IF contentLen.tag = "value" THEN parsed.val ELSE -1
        bodyAllowed == ~(req.method = B("GET") \/ req.method = B("HEAD"))
        te == getField(req.headers, B("Transfer-Encoding"))
        chunked == te.tag = "value" /\ te.value = B("chunked")
    IN IF contentLen.tag = "throw"
       THEN [error |-> PlainError("TypeError", "trim"),
             length |-> -1]
       ELSE IF contentLen.tag = "value" /\ parsed.nan
       THEN [error |-> HTTPError(400, "Bad Content-Length."), length |-> -1]
       ELSE IF te.tag = "throw"
       THEN [error |-> PlainError("TypeError", "trim"),
             length |-> -1]
       ELSE IF ~bodyAllowed /\ (bodyLen > 0 \/ chunked)
       THEN [error |-> HTTPError(400, "HTTP body not allowed."), length |-> -1]
       ELSE IF ~bodyAllowed
       THEN [error |-> NoError, length |-> 0]
       ELSE IF bodyLen >= 0
       THEN [error |-> NoError, length |-> bodyLen]
       ELSE [error |-> HTTPError(501, "TODO:"), length |-> -1]

\* -------------------------------------------------------- dynamic buffer

\* A byte of Buffer.alloc: zero.
NUL == "NUL"

Alloc(cap) == [i \in 1..cap |-> NUL]

\* The bytes DynamicBuf holds: data.subarray(0, length).
BufView(buf) == SubSeq(buf.data, 1, buf.length)

\* A capacity that grows to the length asked for and no further.
GrowCapToFit(cap, newLength, power) == MaxOf(cap, newLength)

RECURSIVE GrowCap(_, _, _)
GrowCap(cap, newLength, power) ==
    IF cap < newLength THEN GrowCap(cap * power, newLength, power) ELSE cap

\* expandBufferCap: a fresh zeroed Buffer of the grown capacity.
expandBufferCap(buf, newLength, power) ==
    Alloc(GrowCap(MaxOf(Len(buf.data), 32), newLength, power))

\* source.copy(target, targetStart, 0)
CopyInto(target, source, targetStart) ==
    [i \in 1..Len(target) |->
        IF i > targetStart /\ i <= targetStart + Len(source)
        THEN source[i - targetStart]
        ELSE target[i]]

\* bufferPush that grows the capacity without copying the bytes held.
bufferPushNoCopy(buf, data) ==
    LET newLength == buf.length + Len(data)
        store == IF Len(buf.data) < newLength
                 THEN expandBufferCap(buf, newLength, 2)
                 ELSE buf.data
    IN [data |-> CopyInto(store, data, buf.length), length |-> newLength]

bufferPush(buf, data) ==
    LET newLength == buf.length + Len(data)
        store == IF Len(buf.data) < newLength
                 THEN CopyInto(expandBufferCap(buf, newLength, 2), buf.data, 0)
                 ELSE buf.data
    IN [data |-> CopyInto(store, data, buf.length), length |-> newLength]

\* bufferPop without the copyWithin: the length drops and the bytes stay.
bufferPopNoShift(buf, length) ==
    [data |-> buf.data, length |-> buf.length - length]

\* bufferPop: data.copyWithin(0, length, buf.length), then the length drops.
bufferPop(buf, length) ==
    [data |-> [i \in 1..Len(buf.data) |->
                  IF i <= buf.length - length
                  THEN buf.data[i + length]
                  ELSE buf.data[i]],
     length |-> buf.length - length]

\* --------------------------------------------------------------- framing

kMaxHeaderLen == 1824 * 8

\* collectMessage that removes the header up to its last line only, and
\* leaves the CRLF of the blank line in the buffer.
collectMessageKeepsBlankLine(buf) ==
    LET index == IndexOf(BufView(buf), CRLF \o CRLF, 0)
        parsed == parseHTTPReq(Subarray(BufView(buf), 0, index + 4))
    IN IF index < 0 \/ parsed.error # NoError
       THEN [error |-> IF index < 0 THEN NoError ELSE parsed.error,
             found |-> FALSE, msg |-> NoMsg, buf |-> buf]
       ELSE [error |-> NoError, found |-> TRUE, msg |-> parsed.msg,
             buf |-> bufferPop(buf, index + 2)]

\* collectMessage that lets a buffer of exactly kMaxHeaderLen bytes pass.
collectMessageOverLimitOnly(buf) ==
    LET index == IndexOf(BufView(buf), CRLF \o CRLF, 0)
        parsed == parseHTTPReq(Subarray(BufView(buf), 0, index + 4))
    IN IF index < 0
       THEN [error |-> IF buf.length > kMaxHeaderLen
                       THEN HTTPError(413, "Header is too large.")
                       ELSE NoError,
             found |-> FALSE, msg |-> NoMsg, buf |-> buf]
       ELSE IF parsed.error # NoError
       THEN [error |-> parsed.error, found |-> FALSE, msg |-> NoMsg, buf |-> buf]
       ELSE [error |-> NoError, found |-> TRUE, msg |-> parsed.msg,
             buf |-> bufferPop(buf, index + 4)]

\* collectMessage: the exception thrown, or the message (found = FALSE for
\* the null that asks for more data) and the buffer it leaves.
collectMessage(buf) ==
    LET index == IndexOf(BufView(buf), CRLF \o CRLF, 0)
        parsed == parseHTTPReq(Subarray(BufView(buf), 0, index + 4))
    IN IF index < 0
       THEN [error |-> IF buf.length >= kMaxHeaderLen
                       THEN HTTPError(413, "Header is too large.")
                       ELSE NoError,
             found |-> FALSE, msg |-> NoMsg, buf |-> buf]
       ELSE IF parsed.error # NoError
       THEN [error |-> parsed.error, found |-> FALSE, msg |-> NoMsg, buf |-> buf]
       ELSE [error |-> NoError, found |-> TRUE, msg |-> parsed.msg,
             buf |-> bufferPop(buf, index + 4)]

\* -------------------------------------------------------------- response

HTTP_VERSION == B("HTTP/1.1")

NoReader == [length |-> -1, remaining |-> -1]

\* A BodyReader of a response: kind "conn" is the request's fixed-length
\* reader (its state is the variable reqBody), kind "mem" the closure of
\* readerFromMemory with its data and its done flag.
ConnBody(length) == [kind |-> "conn", length |-> length, data |-> <<>>, done |-> FALSE]

readerFromMemory(data) ==
    [kind |-> "mem", length |-> Len(data), data |-> data, done |-> FALSE]

NoRes == [statusCode |-> 0, headers |-> <<>>, body |-> readerFromMemory(<<>>)]

\* handleReq: /echo answers with the request body, anything else with
\* a fixed text.
handleReq(req, bodyLength) ==
    [statusCode |-> 200,
     headers |-> <<B("Server: my_first_http_server")>>,
     body |-> IF req.uri = B("/echo")
              THEN ConnBody(bodyLength)
              ELSE readerFromMemory(B("hello world.\n"))]

RECURSIVE joinBuffers(_)
joinBuffers(buffers) ==
    IF Len(buffers) = 1 THEN buffers[1]
    ELSE joinBuffers(SubSeq(buffers, 1, Len(buffers) - 1))
             \o CRLF \o buffers[Len(buffers)]

\* encodeHTTPRes: the status line, a CRLF, and the header fields with a
\* CRLF between them.
encodeHTTPRes(res) ==
    (HTTP_VERSION \o B(" ") \o DecStr(res.statusCode))
        \o CRLF \o joinBuffers(res.headers)

\* The field with the size of the bytes held in memory in place of the
\* declared length of the reader.
contentLengthFieldOfData(res) == B("Content-Length: ") \o DecStr(Len(res.body.data))

\* The field writeHTTPRes appends to the headers of a response.
contentLengthField(res) == B("Content-Length: ") \o DecStr(res.body.length)

\* The response handleNewConn builds from a caught HTTPError.
errorResponse(error) ==
    [statusCode |-> error.statusCode,
     headers |-> <<>>,
     body |-> readerFromMemory(error.message \o B("\n"))]

\* ----------------------------------------------------------------- state

VARIABLES
    stream,     \* every byte the peer sends on this connection
    wire,       \* the bytes of stream not yet delivered by a "data" event
    conn,       \* TCPConn: err and ended, and whether reader is non-null
    flowing,    \* the socket is resumed (not paused)
    destroyed,  \* socket.destroy() was called
    rd,         \* the promise of the last socketRead
    buf,        \* the DynamicBuf of serveClient
    pc,         \* where serveClient / handleNewConn / writeHTTPRes stands
    ctx,        \* who called writeHTTPRes: "serve", "catch" or "call"
    msg,        \* the request of this iteration of the loop
    reqBody,    \* its fixed-length body reader (length, remainingBodyLen)
    res,        \* the response being written
    error,      \* the exception handleNewConn caught
    written,    \* the buffers given to socket.write, in order
    attempts,   \* the status codes writeHTTPRes was called with
    extracted,  \* the requests collectMessage returned
    handled,    \* the requests handleReq was called with
    log,        \* the console.assert calls that failed
    call,       \* the arguments of a function applied on its own
    ret,        \* and what it returned
    consumed,   \* the bytes bufferPop removed from the buffer, in order
    produced,   \* the bytes the reader of this request returned, in order
    queue       \* the bytes pushed and not popped, when the buffer is
                \* called on its own

vars == <<stream, wire, conn, flowing, destroyed, rd, buf, pc, ctx, msg,
          reqBody, res, error, written, attempts, extracted, handled, log,
          call, ret, consumed, produced, queue>>

sockVars == <<conn, flowing, rd>>
ghostVars == <<stream, call, ret, queue>>
histVars == <<consumed, produced>>

\* ---------------------------------------------------------------- inputs

\* How many requests may follow the first one on a connection.
MaxFollowUps == 1

\* A "data" event delivers the next ChunkLen bytes of the stream, or all
\* that is left of it.
ChunkLen == 5

ChunkSizes(w) == {n \in 1..Len(w) : n = ChunkLen \/ n = Len(w)}

FirstMsgs == {
    B("GET / HTTP/1.1\r\n\r\n"),
    B("GET /echo HTTP/1.1\r\nA: b\r\n\r\n"),
    B("GET / HTTP/1.0\r\n\r\n"),
    B("GET / 1.0\r\n\r\n"),
    B("POST /echo HTTP/1.1\r\nContent-Length: 2\r\n\r\nhi"),
    B("POST /echo HTTP/1.1\r\nA: b\r\nContent-Length: 7\r\nX: y\r\n\r\npayload"),
    B("POST /echo HTTP/1.0\r\nA: b\r\nContent-Length: 2\r\nX: y\r\n\r\nhi"),
    B("POST / HTTP/1.1\r\nA: b\r\ncontent-length: 8\r\nX: y\r\n\r\nabcdefgh"),
    B("GET / HTTP/1.1\r\nContent-Length: 2\r\n\r\nhi"),
    B("GET / HTTP/1.1\r\nA: b\r\nContent-Length: 2\r\nX: y\r\n\r\nhi"),
    B("HEAD / HTTP/1.1\r\nTransfer-Encoding: chunked\r\n\r\n"),
    B("GET / HTTP/1.1\r\nA: b\r\nTransfer-Encoding: chunked\r\nX: y\r\n\r\n"),
    B("POST / HTTP/1.1\r\n\r\n"),
    B("POST / HTTP/1.1\r\nA: b\r\nTransfer-Encoding: chunked\r\nX: y\r\n\r\n"),
    B("POST / HTTP/1.1\r\nA: b\r\nContent-Length: x\r\nX: y\r\n\r\n"),
    B("GET / HTTP/1.1\r\nA b: c\r\n\r\n"),
    B("GET / HTTP/1.1\r\nA: b\r\nA b: c\r\n\r\n"),
    B("GET /echo HTTP/1.1\r\nA: b\rc\r\nX: y\r\n\r\n"),
    B("GET\r\n\r\n"),
    B("GET /\r\n\r\n"),
    B("GET / HTTP/1.1 x\r\n\r\n") }

FollowUps == {
    B("GET / HTTP/1.1\r\n\r\n"),
    B("GET /echo HTTP/1.1\r\n\r\n") }

RECURSIVE FollowSeqs(_)
FollowSeqs(n) ==
    IF n = 0 THEN {<<>>}
    ELSE FollowSeqs(n - 1)
             \cup {s \o f : s \in FollowSeqs(n - 1), f \in FollowUps}

Streams == {m \o f : m \in FirstMsgs, f \in FollowSeqs(MaxFollowUps)}

\* ------------------------------------------------------------------ init

NoRead == [st |-> "none", data |-> <<>>]

InitConn ==
    /\ conn = [err |-> FALSE, ended |-> FALSE, reader |-> FALSE]
    /\ flowing = FALSE
    /\ destroyed = FALSE
    /\ rd = NoRead
    /\ buf = [data |-> Alloc(0), length |-> 0]
    /\ msg = NoMsg
    /\ reqBody = NoReader
    /\ error = NoError
    /\ written = <<>>
    /\ attempts = <<>>
    /\ extracted = <<>>
    /\ handled = <<>>
    /\ log = {}
    /\ consumed = <<>>
    /\ produced = <<>>
    /\ queue = <<>>

NoCall == [headers |-> <<>>, key |-> <<>>]

Init ==
    /\ stream \in Streams
    /\ wire = stream
    /\ InitConn
    /\ res = NoRes
    /\ pc = "collect"
    /\ ctx = "serve"
    /\ call = NoCall
    /\ ret = FieldNull

\* ---------------------------------------------------------------- socket

SocketError == PlainError("Error", "socket")

\* socketRead: settled at once after an error or the end of the stream,
\* otherwise the callbacks are saved and the socket is resumed.
socketRead ==
    /\ log' = IF conn.reader THEN log \cup {"socketRead: reader"} ELSE log
    /\ IF conn.err
       THEN rd' = [st |-> "err", data |-> <<>>] /\ UNCHANGED <<conn, flowing>>
       ELSE IF conn.ended
       THEN rd' = [st |-> "ok", data |-> <<>>] /\ UNCHANGED <<conn, flowing>>
       ELSE /\ conn' = [conn EXCEPT !.reader = TRUE]
            /\ flowing' = TRUE
            /\ rd' = [st |-> "pending", data |-> <<>>]

Settled == rd.st \in {"ok", "err"}

\* The loop is suspended on a promise that only an event settles; so is a
\* caller of socketRead between two reads ("chan_idle") and in one
\* ("chan_read").
Suspended ==
    pc \in {"hdr_read", "body_sockread", "drain_sockread", "hdr_wait", "body_wait",
            "chan_idle", "chan_read"}

\* The "data" handler without its conn.reader = null.
OnDataKeepsReader(n) ==
    /\ Suspended /\ ~destroyed
    /\ flowing /\ ~conn.ended /\ ~conn.err
    /\ n \in 1..Len(wire)
    /\ wire' = SubSeq(wire, n + 1, Len(wire))
    /\ flowing' = FALSE
    /\ IF conn.reader
       THEN /\ rd' = [st |-> "ok", data |-> SubSeq(wire, 1, n)]
            /\ UNCHANGED <<pc, log, conn>>
       ELSE /\ log' = log \cup {"data: no reader"}
            /\ pc' = "crashed"
            /\ UNCHANGED <<rd, conn>>
    /\ UNCHANGED <<destroyed, buf, ctx, msg, reqBody, res, error, written,
                   attempts, extracted, handled, ghostVars, histVars>>

\* A "data" handler that does not pause the socket.
OnDataNoPause(n) ==
    /\ Suspended /\ ~destroyed
    /\ flowing /\ ~conn.ended /\ ~conn.err
    /\ n \in 1..Len(wire)
    /\ wire' = SubSeq(wire, n + 1, Len(wire))
    /\ IF conn.reader
       THEN /\ rd' = [st |-> "ok", data |-> SubSeq(wire, 1, n)]
            /\ conn' = [conn EXCEPT !.reader = FALSE]
            /\ UNCHANGED <<pc, log>>
       ELSE /\ log' = log \cup {"data: no reader"}
            /\ pc' = "crashed"
            /\ UNCHANGED <<rd, conn>>
    /\ UNCHANGED <<flowing, destroyed, buf, ctx, msg, reqBody, res, error,
                   written, attempts, extracted, handled, ghostVars, histVars>>

\* The "data" handler of socketInit, with the next n bytes of the stream.
OnData(n) ==
    /\ Suspended /\ ~destroyed
    /\ flowing /\ ~conn.ended /\ ~conn.err
    /\ n \in 1..Len(wire)
    /\ wire' = SubSeq(wire, n + 1, Len(wire))
    /\ flowing' = FALSE
    /\ IF conn.reader
       THEN /\ rd' = [st |-> "ok", data |-> SubSeq(wire, 1, n)]
            /\ conn' = [conn EXCEPT !.reader = FALSE]
            /\ UNCHANGED <<pc, log>>
       ELSE /\ log' = log \cup {"data: no reader"}
            /\ pc' = "crashed"
            /\ UNCHANGED <<rd, conn>>
    /\ UNCHANGED <<destroyed, buf, ctx, msg, reqBody, res, error, written,
                   attempts, extracted, handled, ghostVars, histVars>>

\* The "end" handler.
OnEnd ==
    /\ Suspended /\ ~destroyed
    /\ ~conn.ended /\ ~conn.err
    /\ conn' = [conn EXCEPT !.ended = TRUE, !.reader = FALSE]
    /\ rd' = IF conn.reader THEN [st |-> "ok", data |-> <<>>] ELSE rd
    /\ UNCHANGED <<wire, flowing, destroyed, buf, pc, ctx, msg, reqBody, res,
                   error, written, attempts, extracted, handled, log, ghostVars, histVars>>

\* The "error" handler.
OnError ==
    /\ Suspended /\ ~destroyed
    /\ ~conn.err
    /\ conn' = [conn EXCEPT !.err = TRUE, !.reader = FALSE]
    /\ rd' = IF conn.reader THEN [st |-> "err", data |-> <<>>] ELSE rd
    /\ UNCHANGED <<wire, flowing, destroyed, buf, pc, ctx, msg, reqBody, res,
                   error, written, attempts, extracted, handled, log, ghostVars, histVars>>

\* ------------------------------------------------------------ serve loop

\* An exception of the writeHTTPRes of the catch block that leaves
\* handleNewConn without passing its socket.destroy().
ThrowPastDestroy(e) ==
    IF ctx = "catch" THEN pc' = "done" /\ UNCHANGED error
    ELSE IF ctx = "call" THEN pc' = "done" /\ error' = e
    ELSE pc' = "catch" /\ error' = e

\* An exception leaves serveClient for the catch of handleNewConn; one
\* thrown by the writeHTTPRes of that catch is ignored.
Throw(e) ==
    IF ctx = "catch" THEN pc' = "finally" /\ UNCHANGED error
    ELSE IF ctx = "call" THEN pc' = "done" /\ error' = e
    ELSE pc' = "catch" /\ error' = e

\* socketWrite: rejected at once after an error, otherwise the data goes to
\* socket.write and the promise waits for its callback.
socketWrite(data, kind, next) ==
    IF conn.err
    THEN Throw(SocketError) /\ UNCHANGED written
    ELSE /\ written' = Append(written,
                [kind |-> kind, data |-> data,
                 statusCode |-> res.statusCode, length |-> res.body.length])
         /\ pc' = next
         /\ UNCHANGED error

\* A reader that takes all the buffer holds.
howMuchToConsumeAll(b) == b.length

\* The bytes the fixed-length reader takes from the buffer in one read.
howMuchToConsume(b) == MinOf(b.length, reqBody.remaining)

\* The record of the bytes a read of the request's reader took from the
\* buffer and returned.
Taken(data) ==
    /\ consumed' = consumed \o data
    /\ produced' = produced \o data

\* serveClient: collectMessage on the buffer, and socketRead when it asks
\* for more data.
ServeCollect ==
    /\ pc = "collect"
    /\ LET c == collectMessage(buf)
       IN IF c.error # NoError
          THEN /\ Throw(c.error)
               /\ UNCHANGED <<buf, msg, extracted, sockVars, log, consumed>>
          ELSE IF ~c.found
          THEN /\ socketRead
               /\ pc' = "hdr_read"
               /\ UNCHANGED <<buf, msg, extracted, error, consumed>>
          ELSE /\ buf' = c.buf
               /\ msg' = c.msg
               /\ extracted' = Append(extracted, c.msg)
               /\ consumed' = consumed
                      \o Subarray(BufView(buf), 0, buf.length - c.buf.length)
               /\ pc' = "dispatch"
               /\ UNCHANGED <<error, sockVars, log>>
    /\ UNCHANGED <<wire, destroyed, ctx, reqBody, res, written, attempts,
                   handled, ghostVars, produced>>

\* A loop that returns on every empty read, whatever the buffer holds.
ServeHdrReadReturnsOnEOF ==
    /\ pc = "hdr_read" /\ Settled
    /\ rd' = NoRead
    /\ IF rd.st = "err"
       THEN Throw(SocketError) /\ UNCHANGED buf
       ELSE /\ buf' = bufferPush(buf, rd.data)
            /\ IF Len(rd.data) = 0
               THEN pc' = "finally" /\ UNCHANGED error
               ELSE pc' = "collect" /\ UNCHANGED error
    /\ UNCHANGED <<wire, conn, flowing, destroyed, ctx, msg, reqBody, res,
                   written, attempts, extracted, handled, log, ghostVars, histVars>>

\* serveClient after its socketRead settled: push, then the EOF tests.
ServeHdrRead ==
    /\ pc = "hdr_read" /\ Settled
    /\ rd' = NoRead
    /\ IF rd.st = "err"
       THEN Throw(SocketError) /\ UNCHANGED buf
       ELSE /\ buf' = bufferPush(buf, rd.data)
            /\ IF Len(rd.data) = 0 /\ buf'.length = 0
               THEN pc' = "finally" /\ UNCHANGED error
               ELSE IF Len(rd.data) = 0
               THEN Throw(HTTPError(400, "Unexpected EOF."))
               ELSE pc' = "collect" /\ UNCHANGED error
    /\ UNCHANGED <<wire, conn, flowing, destroyed, ctx, msg, reqBody, res,
                   written, attempts, extracted, handled, log, ghostVars, histVars>>

\* serveClient: readerFromReq, then handleReq.
ServeDispatch ==
    /\ pc = "dispatch"
    /\ LET r == readerFromReq(msg)
       IN IF r.error # NoError
          THEN /\ Throw(r.error)
               /\ UNCHANGED <<reqBody, res, handled>>
          ELSE /\ reqBody' = [length |-> r.length, remaining |-> r.length]
               /\ res' = handleReq(msg, r.length)
               /\ handled' = Append(handled, msg)
               /\ pc' = "write_hdr"
               /\ UNCHANGED error
    /\ UNCHANGED <<wire, sockVars, destroyed, buf, ctx, msg, written,
                   attempts, extracted, log, ghostVars, histVars>>

\* writeHTTPRes up to the write of the header: the Content-Length field is
\* pushed after a console.assert that reports and goes on.
WriteHeader ==
    /\ pc = "write_hdr"
    /\ attempts' = Append(attempts, res.statusCode)
    /\ IF res.body.length < 0
       THEN /\ Throw(PlainError("Error", "TODO: chunked encoding"))
            /\ UNCHANGED <<res, written, log>>
       ELSE IF getField(res.headers, B("Content-Length")).tag = "throw"
       THEN /\ Throw(PlainError("TypeError", "trim"))
            /\ UNCHANGED <<res, written, log>>
       ELSE /\ log' = IF getField(res.headers, B("Content-Length")).tag # "null"
                      THEN log \cup {"writeHTTPRes: Content-Length"}
                      ELSE log
            /\ res' = [res EXCEPT !.headers = Append(@, contentLengthField(res))]
            /\ socketWrite(encodeHTTPRes(res'), "header", "hdr_wait")
    /\ UNCHANGED <<wire, sockVars, destroyed, buf, ctx, msg, reqBody,
                   extracted, handled, ghostVars, histVars>>

\* The callback of socket.write without an error.
WriteOk ==
    /\ pc \in {"hdr_wait", "body_wait"}
    /\ pc' = "body_read"
    /\ UNCHANGED <<wire, sockVars, destroyed, buf, ctx, msg, reqBody, res,
                   error, written, attempts, extracted, handled, log, ghostVars, histVars>>

\* The callback of socket.write with an error.
WriteFail ==
    /\ pc \in {"hdr_wait", "body_wait"}
    /\ Throw(PlainError("Error", "write"))
    /\ UNCHANGED <<wire, sockVars, destroyed, buf, ctx, msg, reqBody, res,
                   written, attempts, extracted, handled, log, ghostVars, histVars>>

\* writeHTTPRes with the data its body reader returned: the loop ends on
\* an empty Buffer, anything else is written.
WriteBody(data) ==
    IF Len(data) = 0
    THEN pc' = "after_write" /\ UNCHANGED <<error, written>>
    ELSE socketWrite(data, "body", "body_wait")

\* writeHTTPRes: res.body.read().  The reader of the request reads the
\* socket when the buffer is empty.
BodyRead ==
    /\ pc = "body_read"
    /\ IF res.body.kind = "mem"
       THEN /\ res' = [res EXCEPT !.body.done = TRUE]
            /\ WriteBody(IF res.body.done THEN <<>> ELSE res.body.data)
            /\ UNCHANGED <<buf, reqBody, sockVars, log, histVars>>
       ELSE IF reqBody.remaining = 0
       THEN /\ WriteBody(<<>>)
            /\ UNCHANGED <<buf, reqBody, res, sockVars, log, histVars>>
       ELSE IF buf.length = 0
       THEN /\ socketRead
            /\ pc' = "body_sockread"
            /\ UNCHANGED <<buf, reqBody, res, error, written, histVars>>
       ELSE /\ reqBody' = [reqBody EXCEPT !.remaining = @ - howMuchToConsume(buf)]
            /\ buf' = bufferPop(buf, howMuchToConsume(buf))
            /\ Taken(Subarray(BufView(buf), 0, howMuchToConsume(buf)))
            /\ WriteBody(Subarray(BufView(buf), 0, howMuchToConsume(buf)))
            /\ UNCHANGED <<res, sockVars, log>>
    /\ UNCHANGED <<wire, destroyed, ctx, msg, attempts, extracted, handled,
                   ghostVars>>

\* The read of the request's reader returning an empty Buffer, its "done",
\* when the stream ends before the body does.
BodySockReadEmptyAtEOF ==
    /\ pc = "body_sockread" /\ Settled
    /\ rd' = NoRead
    /\ IF rd.st = "err"
       THEN Throw(SocketError) /\ UNCHANGED <<buf, reqBody, written, histVars>>
       ELSE IF Len(rd.data) = 0
       THEN /\ WriteBody(<<>>)
            /\ buf' = bufferPush(buf, rd.data)
            /\ UNCHANGED <<reqBody, histVars>>
       ELSE LET pushed == bufferPush(buf, rd.data)
            IN /\ reqBody' = [reqBody EXCEPT
                                 !.remaining = @ - howMuchToConsume(pushed)]
               /\ buf' = bufferPop(pushed, howMuchToConsume(pushed))
               /\ Taken(Subarray(BufView(pushed), 0, howMuchToConsume(pushed)))
               /\ WriteBody(Subarray(BufView(pushed), 0, howMuchToConsume(pushed)))
    /\ UNCHANGED <<wire, conn, flowing, destroyed, ctx, msg, res, attempts,
                   extracted, handled, log, ghostVars>>

\* A reader that reports the end of the stream inside the body as an
\* HTTPError.
BodySockReadHTTPErrorAtEOF ==
    /\ pc = "body_sockread" /\ Settled
    /\ rd' = NoRead
    /\ IF rd.st = "err"
       THEN Throw(SocketError) /\ UNCHANGED <<buf, reqBody, written, histVars>>
       ELSE IF Len(rd.data) = 0
       THEN /\ Throw(HTTPError(400, "Unexpected EOF from HTTP body"))
            /\ buf' = bufferPush(buf, rd.data)
            /\ UNCHANGED <<reqBody, written, histVars>>
       ELSE LET pushed == bufferPush(buf, rd.data)
            IN /\ reqBody' = [reqBody EXCEPT
                                 !.remaining = @ - howMuchToConsume(pushed)]
               /\ buf' = bufferPop(pushed, howMuchToConsume(pushed))
               /\ Taken(Subarray(BufView(pushed), 0, howMuchToConsume(pushed)))
               /\ WriteBody(Subarray(BufView(pushed), 0, howMuchToConsume(pushed)))
    /\ UNCHANGED <<wire, conn, flowing, destroyed, ctx, msg, res, attempts,
                   extracted, handled, log, ghostVars>>

\* The read of the request's reader after its socketRead settled, called
\* by writeHTTPRes.
BodySockRead ==
    /\ pc = "body_sockread" /\ Settled
    /\ rd' = NoRead
    /\ IF rd.st = "err"
       THEN Throw(SocketError) /\ UNCHANGED <<buf, reqBody, written, histVars>>
       ELSE IF Len(rd.data) = 0
       THEN /\ Throw(PlainError("Error", "Unexpected EOF from HTTP body"))
            /\ buf' = bufferPush(buf, rd.data)
            /\ UNCHANGED <<reqBody, written, histVars>>
       ELSE LET pushed == bufferPush(buf, rd.data)
            IN /\ reqBody' = [reqBody EXCEPT
                                 !.remaining = @ - howMuchToConsume(pushed)]
               /\ buf' = bufferPop(pushed, howMuchToConsume(pushed))
               /\ Taken(Subarray(BufView(pushed), 0, howMuchToConsume(pushed)))
               /\ WriteBody(Subarray(BufView(pushed), 0, howMuchToConsume(pushed)))
    /\ UNCHANGED <<wire, conn, flowing, destroyed, ctx, msg, res, attempts,
                   extracted, handled, log, ghostVars>>

\* After writeHTTPRes returned: serveClient returns for version "1.0" and
\* drains the request body otherwise; the catch of handleNewConn is done.
AfterWrite ==
    /\ pc = "after_write"
    /\ pc' = IF ctx = "call" THEN "done"
             ELSE IF ctx = "catch" THEN "finally"
             ELSE IF msg.version = B("1.0") THEN "finally"
             ELSE "drain"
    /\ UNCHANGED <<wire, sockVars, destroyed, buf, ctx, msg, reqBody, res,
                   error, written, attempts, extracted, handled, log, ghostVars, histVars>>

\* A loop that starts its next iteration without reading the request body.
DrainSkipsBody ==
    /\ pc = "drain"
    /\ pc' = "collect"
    /\ msg' = NoMsg /\ reqBody' = NoReader /\ res' = NoRes
    /\ produced' = <<>>
    /\ UNCHANGED <<buf, sockVars, log, consumed>>
    /\ UNCHANGED <<wire, destroyed, ctx, error, written, attempts, extracted,
                   handled, ghostVars>>

\* serveClient: one reqBody.read() of the loop that consumes the rest of
\* the request body; the next iteration starts when it returns no data.
Drain ==
    /\ pc = "drain"
    /\ IF reqBody.remaining = 0
       THEN /\ pc' = "collect"
            /\ msg' = NoMsg /\ reqBody' = NoReader /\ res' = NoRes
            /\ produced' = <<>>
            /\ UNCHANGED <<buf, sockVars, log, consumed>>
       ELSE IF buf.length = 0
       THEN /\ socketRead
            /\ pc' = "drain_sockread"
            /\ UNCHANGED <<buf, msg, reqBody, res, histVars>>
       ELSE /\ reqBody' = [reqBody EXCEPT !.remaining = @ - howMuchToConsume(buf)]
            /\ buf' = bufferPop(buf, howMuchToConsume(buf))
            /\ Taken(Subarray(BufView(buf), 0, howMuchToConsume(buf)))
            /\ pc' = "drain"
            /\ UNCHANGED <<msg, res, sockVars, log>>
    /\ UNCHANGED <<wire, destroyed, ctx, error, written, attempts, extracted,
                   handled, ghostVars>>

\* The read of the request's reader after its socketRead settled, called
\* by the draining loop.
DrainSockRead ==
    /\ pc = "drain_sockread" /\ Settled
    /\ rd' = NoRead
    /\ IF rd.st = "err"
       THEN Throw(SocketError) /\ UNCHANGED <<buf, reqBody, histVars>>
       ELSE IF Len(rd.data) = 0
       THEN /\ Throw(PlainError("Error", "Unexpected EOF from HTTP body"))
            /\ buf' = bufferPush(buf, rd.data)
            /\ UNCHANGED <<reqBody, histVars>>
       ELSE LET pushed == bufferPush(buf, rd.data)
            IN /\ reqBody' = [reqBody EXCEPT
                                 !.remaining = @ - howMuchToConsume(pushed)]
               /\ buf' = bufferPop(pushed, howMuchToConsume(pushed))
               /\ Taken(Subarray(BufView(pushed), 0, howMuchToConsume(pushed)))
               /\ pc' = "drain"
               /\ UNCHANGED error
    /\ UNCHANGED <<wire, conn, flowing, destroyed, ctx, msg, res, written,
                   attempts, extracted, handled, log, ghostVars>>

\* A catch block that answers whatever was thrown.
CatchAnyError ==
    /\ pc = "catch"
    /\ res' = errorResponse(error)
    /\ ctx' = "catch"
    /\ pc' = "write_hdr"
    /\ UNCHANGED <<wire, sockVars, destroyed, buf, msg, reqBody, error,
                   written, attempts, extracted, handled, log, ghostVars, histVars>>

\* handleNewConn: the catch block.
Catch ==
    /\ pc = "catch"
    /\ IF error.kind = "HTTPError"
       THEN /\ res' = errorResponse(error)
            /\ ctx' = "catch"
            /\ pc' = "write_hdr"
       ELSE /\ pc' = "finally"
            /\ UNCHANGED <<res, ctx>>
    /\ UNCHANGED <<wire, sockVars, destroyed, buf, msg, reqBody, error,
                   written, attempts, extracted, handled, log, ghostVars, histVars>>

\* handleNewConn: the finally block.
Finally ==
    /\ pc = "finally"
    /\ destroyed' = TRUE
    /\ pc' = "done"
    /\ UNCHANGED <<wire, sockVars, buf, ctx, msg, reqBody, res, error,
                   written, attempts, extracted, handled, log, ghostVars, histVars>>

Next ==
    \/ ServeCollect
    \/ ServeHdrRead
    \/ ServeDispatch
    \/ WriteHeader
    \/ WriteOk
    \/ WriteFail
    \/ BodyRead
    \/ BodySockRead
    \/ AfterWrite
    \/ Drain
    \/ DrainSockRead
    \/ Catch
    \/ Finally
    \/ \E n \in ChunkSizes(wire) : OnData(n)
    \/ OnEnd
    \/ OnError

Spec == Init /\ [][Next]_vars

\* The steps of handleNewConn after serveClient returned or threw are
\* continuations the event loop runs once their promise is settled, and
\* socket.write calls its callback, with or without an error.
SpecLive ==
    /\ Init /\ [][Next]_vars
    /\ WF_vars(Catch)
    /\ WF_vars(WriteHeader)
    /\ WF_vars(WriteOk \/ WriteFail)
    /\ WF_vars(BodyRead)
    /\ WF_vars(AfterWrite)
    /\ WF_vars(Finally)

\* ------------------------------------------------- long header blocks

\* The serve loop on streams whose header block is about kMaxHeaderLen
\* bytes long.  A "data" event delivers the next BigChunkLen bytes, or all
\* that is left of the stream.
BigChunkLen == 8192

BigChunkSizes(w) == {n \in 1..Len(w) : n = BigChunkLen \/ n = Len(w)}

Filler(n) == [i \in 1..n |-> "a"]

\* A header block of n bytes, CRLF CRLF included: the given lines, then a
\* field X that fills it.
BigBlock(lines, n) ==
    lines \o B("X: ") \o Filler(n - Len(lines) - 7) \o CRLF \o CRLF

BigStreams == {
    BigBlock(B("GET / HTTP/1.1\r\n"), kMaxHeaderLen + 1),
    BigBlock(B("GET /echo HTTP/1.1\r\n"), kMaxHeaderLen),
    B("GET / HTTP/1.1\r\nX: ") \o Filler(kMaxHeaderLen - 19),
    B("GET / HTTP/1.1\r\nX: ") \o Filler(kMaxHeaderLen - 20),
    BigBlock(B("POST /echo HTTP/1.1\r\nA: b\r\nContent-Length: 7\r\n"),
             BigChunkLen - 4) \o B("payload"),
    BigBlock(B("POST / HTTP/1.1\r\nA: b\r\nContent-Length: 8\r\n"),
             BigChunkLen - 4) \o B("abcdefgh") }

InitBig ==
    /\ stream \in BigStreams
    /\ wire = stream
    /\ InitConn
    /\ res = NoRes
    /\ pc = "collect"
    /\ ctx = "serve"
    /\ call = NoCall
    /\ ret = FieldNull

NextBig ==
    \/ ServeCollect
    \/ ServeHdrRead
    \/ ServeDispatch
    \/ WriteHeader
    \/ WriteOk
    \/ WriteFail
    \/ BodyRead
    \/ BodySockRead
    \/ AfterWrite
    \/ Drain
    \/ DrainSockRead
    \/ Catch
    \/ Finally
    \/ \E n \in BigChunkSizes(wire) : OnData(n)
    \/ OnEnd
    \/ OnError

SpecBig == InitBig /\ [][NextBig]_vars

\* --------------------------------------------- socketRead on its own

\* A caller that only reads: socketRead, the await of its promise, and
\* socketRead again some time after it settled, whatever it settled with.
\* rd keeps the outcome of the last read.
InitChan ==
    /\ stream \in Streams
    /\ wire = stream
    /\ InitConn
    /\ res = NoRes
    /\ pc = "chan_idle"
    /\ ctx = "call"
    /\ call = NoCall
    /\ ret = FieldNull

ChanRead ==
    /\ pc = "chan_idle"
    /\ socketRead
    /\ pc' = "chan_read"
    /\ UNCHANGED <<wire, destroyed, buf, ctx, msg, reqBody, res, error, written,
                   attempts, extracted, handled, ghostVars, histVars>>

ChanSettled ==
    /\ pc = "chan_read" /\ Settled
    /\ pc' = "chan_idle"
    /\ UNCHANGED <<wire, sockVars, destroyed, buf, ctx, msg, reqBody, res,
                   error, written, attempts, extracted, handled, log,
                   ghostVars, histVars>>

NextChan ==
    \/ ChanRead
    \/ ChanSettled
    \/ \E n \in ChunkSizes(wire) : OnData(n)
    \/ OnEnd
    \/ OnError

SpecChan == InitChan /\ [][NextChan]_vars

\* ------------------------------------- functions applied on their own

\* writeHTTPRes called with a response an application handler may build:
\* up to MaxResHeaders fields, a body held in memory.
MaxResHeaders == 3

ResFields == {B("X: y"), B("Content-Length: 2"), B("content-length: 2")}

RECURSIVE ListsOver(_, _)
ListsOver(S, n) ==
    IF n = 0 THEN {<<>>}
    ELSE ListsOver(S, n - 1)
             \cup {Append(l, f) : l \in ListsOver(S, n - 1), f \in S}

InitRes ==
    /\ stream = <<>>
    /\ wire = <<>>
    /\ InitConn
    /\ res \in {[statusCode |-> 200, headers |-> h, body |-> readerFromMemory(d)] :
                   h \in ListsOver(ResFields, MaxResHeaders),
                   d \in {B("hi"), <<>>}}
    /\ pc = "write_hdr"
    /\ ctx = "call"
    /\ call = [headers |-> res.headers, key |-> <<>>]
    /\ ret = FieldNull

NextRes ==
    \/ WriteHeader
    \/ WriteOk
    \/ WriteFail
    \/ BodyRead
    \/ AfterWrite
    \/ OnError

SpecRes == InitRes /\ [][NextRes]_vars

\* getField called with up to MaxFields fields and a name.
MaxFields == 3

Fields == {B("Content-Length: 2"), B("content-length: 3"), B("Host: a:1"), B("X: y")}

Keys == {B("Content-Length"), B("content-length"), B("Host")}

InitGetField ==
    /\ stream = <<>>
    /\ wire = <<>>
    /\ InitConn
    /\ res = NoRes
    /\ pc = "call"
    /\ ctx = "call"
    /\ call \in [headers : ListsOver(Fields, MaxFields), key : Keys]
    /\ ret = FieldNull

ApplyGetField ==
    /\ pc = "call"
    /\ ret' = getField(call.headers, call.key)
    /\ pc' = "done"
    /\ UNCHANGED <<stream, wire, conn, flowing, destroyed, rd, buf, ctx, msg,
                   reqBody, res, error, written, attempts, extracted, handled,
                   log, call, queue, histVars>>

NextGetField == ApplyGetField

SpecGetField == InitGetField /\ [][NextGetField]_vars

\* bufferPush and bufferPop called on a fresh DynamicBuf, in any order,
\* until MaxPushed bytes were pushed: chunks that fit, chunks that make
\* the capacity grow once or twice, the empty chunk; pops of a part, of
\* all, and of more than the buffer holds.
MaxPushed == 70

PushChunks ==
    {<<>>, B("0123456789abcdefghij"), B("ABCDEFGHIJKLMNOPQRSTUVWXYZ0123456")}

PopCounts(b) == {n \in 0..(b.length + 1) : n \in {0, 7, 21, b.length, b.length + 1}}

NoBufCall == [op |-> "none", n |-> 0]

InitBuf ==
    /\ stream = <<>>
    /\ wire = <<>>
    /\ InitConn
    /\ res = NoRes
    /\ pc = "buf"
    /\ ctx = "call"
    /\ call = NoBufCall
    /\ ret = FieldNull

BufPush(data) ==
    /\ pc = "buf"
    /\ Len(consumed) + buf.length + Len(data) <= MaxPushed
    /\ call' = [op |-> "push", n |-> Len(data)]
    /\ buf' = bufferPush(buf, data)
    /\ queue' = queue \o data
    /\ UNCHANGED <<stream, wire, conn, flowing, destroyed, rd, pc, ctx, msg,
                   reqBody, res, error, written, attempts, extracted, handled,
                   log, ret, histVars>>

\* bufferPop has no test of its argument: a count above buf.length leaves
\* the bytes where they are (copyWithin copies nothing) and a negative
\* buf.length; no call follows it here.
BufPop(n) ==
    /\ pc = "buf"
    /\ call' = [op |-> "pop", n |-> n]
    /\ buf' = bufferPop(buf, n)
    /\ IF n <= buf.length
       THEN /\ consumed' = consumed \o Subarray(BufView(buf), 0, n)
            /\ queue' = SubSeq(queue, n + 1, Len(queue))
            /\ UNCHANGED pc
       ELSE /\ pc' = "overpopped"
            /\ UNCHANGED <<consumed, queue>>
    /\ UNCHANGED <<stream, wire, conn, flowing, destroyed, rd, ctx, msg,
                   reqBody, res, error, written, attempts, extracted, handled,
                   log, ret, produced>>

NextBuf ==
    \/ \E data \in PushChunks : BufPush(data)
    \/ \E n \in PopCounts(buf) : BufPop(n)

SpecBuf == InitBuf /\ [][NextBuf]_vars

\* findDelimiter called as splitLines calls it: on a Buffer of up to
\* MaxDelimLen bytes, each a letter, a CR or a LF, at any position of it.
MaxDelimLen == 4

DelimBytes == {"a", CR, LF}

InitDelim ==
    /\ stream = <<>>
    /\ wire = <<>>
    /\ InitConn
    /\ res = NoRes
    /\ pc = "call"
    /\ ctx = "call"
    /\ \E b \in ListsOver(DelimBytes, MaxDelimLen) :
           call \in [buf : {b}, start : 0..Len(b)]
    /\ ret = <<-1, 0>>

ApplyFindDelimiter ==
    /\ pc = "call"
    /\ ret' = findDelimiter(call.buf, call.start)
    /\ pc' = "done"
    /\ UNCHANGED <<stream, wire, conn, flowing, destroyed, rd, buf, ctx, msg,
                   reqBody, res, error, written, attempts, extracted, handled,
                   log, call, queue, histVars>>

NextDelim == ApplyFindDelimiter

SpecDelim == InitDelim /\ [][NextDelim]_vars

\* ---------------------------------------------------------------- claims

\* What the claims say of a header field and of a header list, stated
\* apart from the code: the name is the text before the first colon, the
\* value all the text after it, both trimmed; a lookup takes the first
\* field of the whole list whose name matches without regard to case.
FieldName(f) ==
    LET i == IndexOf(f, <<":">>, 0)
    IN Trim(IF i < 0 THEN f ELSE Subarray(f, 0, i))

FieldValue(f) ==
    LET i == IndexOf(f, <<":">>, 0)
    IN Trim(IF i < 0 THEN <<>> ELSE Subarray(f, i + 1, Len(f)))

Matching(headers, name) ==
    {i \in 1..Len(headers) :
        toLowerCase(FieldName(headers[i])) = toLowerCase(name)}

lookupField(headers, name) ==
    IF Matching(headers, name) = {} THEN FieldNull
    ELSE [tag |-> "value",
          value |-> FieldValue(headers[SetMin(Matching(headers, name))])]

\* The lines of a header as it went on the wire, split at CRLF.
RECURSIVE WireLines(_)
WireLines(bytes) ==
    LET i == IndexOf(bytes, CRLF, 0)
    IN IF i < 0 THEN <<bytes>>
       ELSE <<Subarray(bytes, 0, i)>> \o WireLines(Subarray(bytes, i + 2, Len(bytes)))

\* The Content-Length fields of a written header: its lines after the
\* status line with that name.
ContentLengthLines(bytes) ==
    LET lines == WireLines(bytes)
    IN {i \in 2..Len(lines) :
           toLowerCase(FieldName(lines[i])) = B("content-length")}

EndsWith(bytes, suffix) ==
    /\ Len(bytes) >= Len(suffix)
    /\ SubSeq(bytes, Len(bytes) - Len(suffix) + 1, Len(bytes)) = suffix

HeaderWrites == {i \in 1..Len(written) : written[i].kind = "header"}

\* C1: once a request of version HTTP/1.0 was answered the loop ends: the
\* loop does not go on to drain and to the next iteration, and no header
\* block is extracted after that of an HTTP/1.0 request.
C1_Http10ClosesAfterResponse ==
    /\ \A i \in 1..(Len(extracted) - 1) : extracted[i].version # B("HTTP/1.0")
    /\ (ctx = "serve" /\ msg.version = B("HTTP/1.0")) => pc # "drain"

\* Requests without a body, with the URI the handler sees and the length
\* of the body it answers with.
BodylessGets == {
    [bytes |-> B("GET / HTTP/1.1\r\n\r\n"), uri |-> B("/"), length |-> 13],
    [bytes |-> B("GET /echo HTTP/1.1\r\nA: b\r\n\r\n"), uri |-> B("/echo"), length |-> 0],
    [bytes |-> B("GET /echo HTTP/1.1\r\n\r\n"), uri |-> B("/echo"), length |-> 0] }

RECURSIVE ConcatBytes(_)
ConcatBytes(rs) ==
    IF rs = <<>> THEN <<>> ELSE Head(rs).bytes \o ConcatBytes(Tail(rs))

\* The streams of k >= 2 requests without a body, with their requests.
PipelinedCases ==
    {[rs |-> rs, bytes |-> ConcatBytes(rs)] :
        rs \in {l \in ListsOver(BodylessGets, MaxFollowUps + 1) : Len(l) >= 2}}

\* The ways to read the stream as k >= 2 requests without a body.
Pipelined == {c.rs : c \in {d \in PipelinedCases : d.bytes = stream}}

IsHeaderWrite(w) == w.kind = "header"

\* No end of stream, no socket error, no exception so far.
NoFault == ~conn.err /\ ~conn.ended /\ error = NoError

\* Every byte was delivered and taken, and the loop waits for more.
Quiescent ==
    wire = <<>> /\ pc = "hdr_read" /\ rd.st = "pending" /\ buf.length = 0

\* C2: for k >= 2 pipelined requests without a body the handler is called
\* once per request, in order; without a fault the connection stays open,
\* the responses written are those of the requests handled, one each and
\* in order, and when all bytes were taken there are k of them.
C2_PipelinedRequestsAnswered ==
    \A rs \in Pipelined :
        LET hw == SelectSeq(written, IsHeaderWrite)
        IN /\ Len(handled) <= Len(rs)
           /\ \A i \in 1..Len(handled) : handled[i].uri = rs[i].uri
           /\ NoFault =>
                /\ ~destroyed
                /\ pc \notin {"catch", "finally", "done", "crashed"}
                /\ Len(hw) \in {Len(handled) - 1, Len(handled)}
                /\ \A i \in 1..Len(hw) :
                      hw[i].statusCode = 200 /\ hw[i].length = rs[i].length
                /\ Quiescent => Len(handled) = Len(rs) /\ Len(hw) = Len(rs)

C2_Witness ==
    \E rs \in Pipelined :
        /\ NoFault /\ Quiescent /\ ~destroyed
        /\ Len(handled) = Len(rs)
        /\ Len(SelectSeq(written, IsHeaderWrite)) = Len(rs)

\* C3: the header bytes of every response written end with a blank line,
\* CRLF CRLF.
C3_HeaderEndsWithBlankLine ==
    \A i \in HeaderWrites : EndsWith(written[i].data, CRLF \o CRLF)

IsDecimal(v) ==
    v # <<>> /\ \A i \in 1..Len(v) : \E d \in 1..10 : DigitChars[d] = v[i]

\* C4: every header written holds exactly one Content-Length field, and
\* its value is the declared length of the body reader of that response.
C4_OneContentLength ==
    \A i \in HeaderWrites :
        LET lines == WireLines(written[i].data)
            cl == ContentLengthLines(written[i].data)
        IN /\ Cardinality(cl) = 1
           /\ \A j \in cl :
                 /\ IsDecimal(FieldValue(lines[j]))
                 /\ DigitsValue(FieldValue(lines[j]), 0) = written[i].length

C4_Witness ==
    \E i \in HeaderWrites :
        /\ written[i].statusCode = 200
        /\ written[i].length = 7
        /\ Cardinality(ContentLengthLines(written[i].data)) = 1

\* C5: writeHTTPRes rejects a response whose headers already hold a
\* Content-Length field, wherever it is in the list: nothing is written.
C5_SecondContentLengthRejected ==
    (ctx = "call" /\ Matching(call.headers, B("Content-Length")) # {})
        => written = <<>>

\* readerFromReq ran for the request of this iteration.
Dispatched == ctx = "serve" /\ msg # NoMsg /\ pc # "dispatch"

BodyBearing(m) == m.method \notin {B("GET"), B("HEAD")}

\* The header list holds a Content-Length field whose value is a
\* non-negative integer.
ValidLength(headers) ==
    /\ lookupField(headers, B("Content-Length")).tag = "value"
    /\ IsDecimal(lookupField(headers, B("Content-Length")).value)

DeclaredLength(headers) ==
    DigitsValue(lookupField(headers, B("Content-Length")).value, 0)

\* The header list indicates a body: a Content-Length that is not zero, or
\* Transfer-Encoding: chunked.
BodyIndicated(headers) ==
    \/ ValidLength(headers) /\ DeclaredLength(headers) > 0
    \/ lookupField(headers, B("Transfer-Encoding"))
           = [tag |-> "value", value |-> B("chunked")]

\* C6: a request with a body-bearing method and a Content-Length field of
\* value N, anywhere in its header list, gets a fixed-length reader of
\* declared length N.
C6_FixedLengthReader ==
    (Dispatched /\ BodyBearing(msg) /\ ValidLength(msg.headers))
        => reqBody.length = DeclaredLength(msg.headers)

\* C7: a GET or HEAD request that indicates a body fails with the 400
\* "HTTP body not allowed." error, and the handler is not called for it.
C7_BodyNotAllowed ==
    (Dispatched /\ ~BodyBearing(msg) /\ BodyIndicated(msg.headers))
        => /\ pc = "catch"
           /\ error = HTTPError(400, "HTTP body not allowed.")
           /\ Len(handled) < Len(extracted)

NoLengthField(headers) == Matching(headers, B("Content-Length")) = {}

C9_GetFieldFirstMatch ==
    (pc = "done" /\ call # NoCall) => ret = lookupField(call.headers, call.key)

\* The offsets at which CRLF CRLF stands in the bytes.
Terminators(bytes) ==
    {k \in 0..(Len(bytes) - 4) :
        /\ bytes[k + 1] = CR /\ bytes[k + 2] = LF
        /\ bytes[k + 3] = CR /\ bytes[k + 4] = LF}

\* C10: when the buffer holds CRLF CRLF, first at offset k, collectMessage
\* parses the bytes [0, k+4) and, returning their request, leaves in the
\* buffer the bytes after offset k+4, unchanged and in order; when those
\* bytes do not parse it throws and takes nothing.
C10_CollectTakesOneBlock ==
    [][  (pc = "collect" /\ Terminators(BufView(buf)) # {})
           => LET view == BufView(buf)
                  k == SetMin(Terminators(view))
                  p == parseHTTPReq(SubSeq(view, 1, k + 4))
              IN IF p.error = NoError
                 THEN /\ pc' = "dispatch"
                      /\ msg' = p.msg
                      /\ extracted' = Append(extracted, p.msg)
                      /\ BufView(buf') = SubSeq(view, k + 5, Len(view))
                 ELSE /\ pc' = "catch"
                      /\ error' = p.error
                      /\ buf' = buf  ]_vars

\* The two requests of a stream came in one chunk: the first was taken
\* and the second is whole in the buffer.
C10_Witness ==
    /\ pc = "dispatch"
    /\ Len(extracted) = 1
    /\ wire = <<>>
    /\ BufView(buf) \in FollowUps
    /\ stream = B("GET / HTTP/1.1\r\n\r\n") \o BufView(buf)

\* The bytes the "data" events delivered so far.
Received == SubSeq(stream, 1, Len(stream) - Len(wire))

\* The chunk a read resolved with that its caller has not pushed yet.
InFlight == IF rd.st = "ok" THEN rd.data ELSE <<>>

\* C11: the bytes taken from the buffer so far (header blocks and body
\* bytes, in the order they were taken), then the bytes the buffer holds,
\* then the chunk of a read that is resolved and not pushed yet, are the
\* bytes received so far: none is lost, duplicated or out of order.
C11_NoByteLostOrDuplicated ==
    consumed \o BufView(buf) \o InFlight = Received

\* A request with a body and the request after it were taken whole, the
\* buffer having grown on the way.
C11_Witness ==
    /\ Len(extracted) = 2
    /\ BodyBearing(extracted[1])
    /\ Len(buf.data) > 32
    /\ consumed = stream
    /\ BufView(buf) = <<>>

HeaderTooLarge == HTTPError(413, "Header is too large.")

\* C12: a collectMessage on a buffer without CRLF CRLF that holds at least
\* kMaxHeaderLen bytes throws the 413 HTTPError and takes nothing, and
\* after it no request is parsed or given to the handler.
C12_UnterminatedOverLimitIs413 ==
    /\ [][  (pc = "collect" /\ Terminators(BufView(buf)) = {}
                 /\ buf.length >= kMaxHeaderLen)
              => /\ pc' = "catch"
                 /\ error' = HeaderTooLarge
                 /\ buf' = buf
                 /\ extracted' = extracted  ]_vars
    /\ [][  error = HeaderTooLarge
              => (extracted' = extracted /\ handled' = handled)  ]_vars

\* Exactly kMaxHeaderLen bytes without a terminator were answered 413.
C12_Witness ==
    /\ destroyed
    /\ error = HeaderTooLarge
    /\ buf.length = kMaxHeaderLen
    /\ Terminators(BufView(buf)) = {}
    /\ attempts = <<413>>
    /\ extracted = <<>> /\ handled = <<>>

\* The length of the first header block of the stream, CRLF CRLF included
\* (0 when the stream holds no terminator).
FirstBlockLen ==
    IF Terminators(stream) = {} THEN 0 ELSE SetMin(Terminators(stream)) + 4

\* C13: a header block longer than kMaxHeaderLen bytes is never parsed
\* nor given to the handler, however it arrives.
C13_OversizedHeaderNeverDispatched ==
    FirstBlockLen > kMaxHeaderLen => (extracted = <<>> /\ handled = <<>>)

\* The last read was settled by the end of the stream (resolved with no
\* data) or by a transport error (rejected).
TerminalRead == rd.st \in {"ok", "err"} /\ rd.data = <<>>

\* C14: after a read that resolved empty or was rejected, the next read
\* is settled at once with the same outcome, whatever notification came
\* in between, and neither registers a reader nor resumes the socket.
C14_TerminalStateIsStable ==
    [][  (pc = "chan_idle" /\ pc' = "chan_read" /\ TerminalRead)
           => (rd' = rd /\ ~conn'.reader /\ flowing' = flowing)  ]_vars

\* C15: at most one read is outstanding and each is settled once.
\* socketRead is never called with conn.reader set and no "data" event
\* finds conn.reader null; conn.reader is set exactly while the promise of
\* the last socketRead is pending, which is only at the three awaits of
\* socketRead; and a settled promise is not settled again: its outcome
\* stays until the caller takes it.
C15_OneReadSettledOnce ==
    /\ [](  /\ "socketRead: reader" \notin log
            /\ "data: no reader" \notin log
            /\ pc # "crashed"
            /\ conn.reader <=> rd.st = "pending"
            /\ rd.st = "pending"
                  => pc \in {"hdr_read", "body_sockread", "drain_sockread"}  )
    /\ [][  Settled => (rd' = rd \/ rd' = NoRead)  ]_vars
    /\ [][  (rd.st = "pending" /\ rd' # rd) => (rd'.st \in {"ok", "err"} /\ ~conn'.reader)  ]_vars

\* A read of the draining loop is outstanding after the reads of the
\* header loop were settled and the response was written.
C15_Witness ==
    /\ pc = "drain_sockread"
    /\ rd.st = "pending" /\ conn.reader
    /\ Len(extracted) = 1
    /\ written # <<>>
    /\ Len(Received) > ChunkLen

\* readerFromReq returned the fixed-length reader of this request.
HasReader == reqBody # NoReader

\* Where in the stream the body of this request starts: after the bytes
\* taken before its reader returned any.
BodyStart == Len(consumed) - Len(produced)

\* A read of the request's reader: by writeHTTPRes for /echo, or by the
\* draining loop.
ReaderCall ==
    \/ pc = "body_read" /\ res.body.kind = "conn"
    \/ pc = "drain"

IsBodyWrite(w) == w.kind = "body"

\* C16: the fixed-length reader of declared length N has returned, over
\* its calls so far, the first N - remaining bytes after the header block,
\* never more than N; a call that returns data returns the first
\* min(buffered, remaining) bytes held and leaves the rest in the buffer;
\* with remaining = 0 a call returns nothing and leaves the buffer and the
\* socket as they are.
C16_FixedLengthReaderTakesN ==
    /\ [](  HasReader
              => /\ reqBody.remaining >= 0
                 /\ Len(produced) = reqBody.length - reqBody.remaining
                 /\ EndsWith(SubSeq(stream, 1, BodyStart), CRLF \o CRLF)
                 /\ produced = SubSeq(stream, BodyStart + 1, BodyStart + Len(produced))  )
    /\ [][  (HasReader /\ produced' # produced /\ produced' # <<>>)
              => LET held == BufView(buf) \o InFlight
                     k == MinOf(Len(held), reqBody.remaining)
                 IN /\ k > 0
                    /\ produced' = produced \o SubSeq(held, 1, k)
                    /\ BufView(buf') = SubSeq(held, k + 1, Len(held))  ]_vars
    /\ [][  (HasReader /\ ReaderCall /\ reqBody.remaining = 0)
              => /\ buf' = buf /\ UNCHANGED <<wire, sockVars, consumed, written>>
                 /\ produced' \in {produced, <<>>}  ]_vars

\* The seven bytes of a body were returned by two reads, and the request
\* that came with the last of them is left in the buffer.
C16_Witness ==
    /\ pc = "drain" /\ HasReader
    /\ reqBody.length = 7 /\ reqBody.remaining = 0
    /\ produced = B("payload")
    /\ Len(SelectSeq(written, IsBodyWrite)) = 2
    /\ BufView(buf) \in FollowUps

UnexpectedBodyEOF == PlainError("Error", "Unexpected EOF from HTTP body")

\* The socketRead of the request's reader resolved with no data.
BodyReadSawEOF ==
    /\ pc \in {"body_sockread", "drain_sockread"}
    /\ rd = [st |-> "ok", data |-> <<>>]

\* C17: the fixed-length reader reads the socket only with remaining > 0
\* and an empty buffer; when that read reports the end of the stream the
\* reader throws its "Unexpected EOF" Error and returns nothing, and the
\* serve loop is over: nothing more is extracted, handled or written.
C17_BodyEOFIsAnError ==
    /\ [](  pc \in {"body_sockread", "drain_sockread"}
              => (HasReader /\ reqBody.remaining > 0 /\ buf.length = 0)  )
    /\ [][  (BodyReadSawEOF /\ pc' # pc)
              => /\ pc' = "catch"
                 /\ error' = UnexpectedBodyEOF
                 /\ UNCHANGED <<written, produced, reqBody>>  ]_vars
    /\ [](  error = UnexpectedBodyEOF => pc \in {"catch", "finally", "done"}  )
    /\ [][  error = UnexpectedBodyEOF
              => UNCHANGED <<extracted, handled, written, attempts>>  ]_vars

\* The stream ended inside the body the response echoes: the header was
\* written, then the connection was closed on the reader's Error.
C17_Witness ==
    /\ destroyed
    /\ error = UnexpectedBodyEOF
    /\ attempts = <<200>>
    /\ reqBody.remaining > 0
    /\ res.body.kind = "conn"

\* The tokens of the start line of the first header block of the stream.
StartLineTokens == Split(Subarray(stream, 0, IndexOf(stream, CRLF, 0)), " ")

\* The whole first header block is in the buffer and none was taken: the
\* parse of it failed.
FirstBlockRefused == extracted = <<>> /\ Terminators(BufView(buf)) # {}

\* C18: a header block whose start line is not three tokens separated by
\* single spaces is not parsed into a request nor given to the handler,
\* and when the connection is closed after its parse failed a 400
\* response was attempted.
C18_BadStartLineIs400 ==
    Len(StartLineTokens) # 3
        => /\ extracted = <<>> /\ handled = <<>>
           /\ (destroyed /\ FirstBlockRefused) => attempts = <<400>>

\* The field lines of the first header block of the stream: its lines
\* between the start line and the blank line.
FirstBlockFields ==
    LET lines == WireLines(SubSeq(stream, 1, FirstBlockLen))
    IN SubSeq(lines, 2, Len(lines) - 2)

\* A field line of the first header block fails the validation of its
\* name or of its value.
BadFieldFirst ==
    \E i \in 1..Len(FirstBlockFields) : ~validateHeader(FirstBlockFields[i])

BadField == HTTPError(400, "Bad field.")

\* C19: when a field line of a header block fails validation, the parse
\* of the block throws the 400 "Bad field." HTTPError and takes nothing:
\* no request is extracted or handled, and when the connection is closed
\* after that the one response attempted was a 400.
C19_BadFieldIs400 ==
    /\ [](  BadFieldFirst => (extracted = <<>> /\ handled = <<>>)  )
    /\ [][  (BadFieldFirst /\ pc = "collect" /\ Terminators(BufView(buf)) # {})
              => (pc' = "catch" /\ error' = BadField /\ buf' = buf)  ]_vars
    /\ [](  (BadFieldFirst /\ destroyed /\ FirstBlockRefused)
              => (error = BadField /\ attempts = <<400>>)  )

\* The second of two fields was bad and the 400 response went out.
C19_Witness ==
    /\ destroyed
    /\ Len(FirstBlockFields) = 2
    /\ validateHeader(FirstBlockFields[1]) /\ ~validateHeader(FirstBlockFields[2])
    /\ error = BadField
    /\ attempts = <<400>>
    /\ \E i \in HeaderWrites : written[i].statusCode = 400
    /\ handled = <<>>

\* The writes of a response that is not the handler's 200.
IsErrorWrite(w) == w.statusCode # 200

ErrorWrites == SelectSeq(written, IsErrorWrite)

\* What the connection shows once it is closed after the serve loop threw:
\* one more response attempted than requests handled exactly when the
\* error is an HTTPError, with its status code; what was written of it is
\* its header, declaring the length of the body, then the body; after any
\* other error nothing of the kind is written.
ErrorHandling(body) ==
    LET ew == ErrorWrites
    IN IF error.kind = "HTTPError"
       THEN /\ Len(attempts) = Len(handled) + 1
            /\ attempts[Len(attempts)] = error.statusCode
            /\ Len(ew) <= 2
            /\ \A i \in 1..Len(ew) : ew[i].statusCode = error.statusCode
            /\ Len(ew) >= 1 => /\ ew[1].kind = "header"
                               /\ ew[1].length = Len(body)
                               /\ WireLines(ew[1].data)[1]
                                     = B("HTTP/1.1 ") \o DecStr(error.statusCode)
            /\ Len(ew) = 2 => (ew[2].kind = "body" /\ ew[2].data = body)
       ELSE /\ Len(attempts) = Len(handled)
            /\ ew = <<>>

\* C20 as stated: the body of the one error response is the error message.
C20_ErrorResponseBodyIsMessage ==
    (destroyed /\ error # NoError) => ErrorHandling(error.message)

\* C20 amended: after the serve loop threw, a response is attempted if and
\* only if the error is an HTTPError; it is the only one, it carries the
\* status code of the error and, as its body, the error message followed
\* by a line feed; nothing else is written after the throw, and after any
\* other error no byte is written and no response is attempted.
C20_ErrorResponseIffHTTPError ==
    /\ [](  (destroyed /\ error # NoError)
              => ErrorHandling(error.message \o <<LF>>)  )
    /\ [][  (error # NoError /\ error.kind # "HTTPError")
              => UNCHANGED <<written, attempts>>  ]_vars
    /\ [][  (error.kind = "HTTPError" /\ written' # written)
              => /\ ctx = "catch"
                 /\ written'[Len(written')].statusCode = error.statusCode  ]_vars

\* A request was answered, the next header block was refused with an
\* HTTPError, and the header and the body of its response were written.
C20_Witness ==
    /\ destroyed
    /\ error.kind = "HTTPError"
    /\ Len(handled) = 1
    /\ Len(attempts) = 2
    /\ Len(ErrorWrites) = 2
    /\ ErrorWrites[2].data = error.message \o <<LF>>

\* serveClient returned or threw: handleNewConn is in its catch block, in
\* the writeHTTPRes of it, or before its finally block.
LoopEnded == pc \in {"catch", "finally"} \/ ctx = "catch"

\* C21: once the serve loop has ended, by a clean end of the stream, an
\* HTTPError, a transport error or any other exception, the socket is
\* eventually destroyed, also when the write of the error response fails.
C21_EndedLoopDestroysSocket == LoopEnded ~> destroyed

\* The loop ended on an HTTPError, the write of its response failed, and
\* the socket was destroyed.
C21_Witness ==
    /\ destroyed
    /\ ctx = "catch"
    /\ error.kind = "HTTPError"
    /\ attempts[Len(attempts)] = error.statusCode
    /\ Len(ErrorWrites) = 1

\* The read serveClient awaits for a header block resolved with an empty
\* Buffer.
HeaderReadSawEOF == pc = "hdr_read" /\ rd.st = "ok" /\ rd.data = <<>>

UnexpectedEOF == HTTPError(400, "Unexpected EOF.")

\* C22: when the read serveClient awaits for a header block returns empty
\* and the buffer is empty, the loop returns: no error is raised and no
\* response is attempted or written, then or until the socket is closed
\* (a loop that returned with no request in hand returned on such a read);
\* when the buffer holds bytes (an incomplete header block) the loop throws
\* the "Unexpected EOF." error.
C22_EOFWhileAwaitingHeader ==
    /\ [][(HeaderReadSawEOF /\ pc' # pc) =>
             IF buf.length = 0
             THEN /\ pc' = "finally"
                  /\ error = NoError /\ error' = NoError
                  /\ written' = written /\ attempts' = attempts
             ELSE /\ pc' = "catch"
                  /\ error' = UnexpectedEOF]_vars
    /\ []((pc \in {"finally", "done"} /\ error = NoError /\ msg = NoMsg) =>
             /\ buf.length = 0
             /\ conn.ended
             /\ ErrorWrites = <<>>
             /\ Len(attempts) = Len(handled))

\* The stream ended inside a header block: the loop threw on the bytes
\* left in the buffer.
C22_Witness ==
    /\ destroyed
    /\ error = UnexpectedEOF
    /\ buf.length > 0
    /\ wire = <<>>
    /\ Len(extracted) = 1

\* C23: as long as no pop removed more than the buffer held, the bytes
\* data[0..length) of the buffer are the queue of the bytes pushed at the
\* tail and not yet popped from the head, in order, also after the
\* capacity grew.
C23_BufferIsFifoQueue ==
    pc = "buf" =>
        /\ buf.length = Len(queue)
        /\ BufView(buf) = queue
        /\ Len(buf.data) >= buf.length

\* Bytes pushed before and after the capacity grew from 32 to 64 and then
\* to 128, some popped in between, the rest still in the buffer.
C23_Witness ==
    /\ pc = "buf"
    /\ Len(buf.data) = 128
    /\ Len(consumed) > 0
    /\ buf.length > 33
    /\ call.op = "pop"

\* C24: bufferPop with a count above the current length of the buffer
\* fails: the call raises an error and leaves the buffer as it was.
C24_OverPopIsRejected ==
    (call.op = "pop" /\ pc = "overpopped") =>
        /\ error # NoError
        /\ buf.length >= 0
        /\ BufView(buf) = queue

\* The stream can still deliver data: no "end" and no "error" event yet.
Readable == ~conn.ended /\ ~conn.err

\* C25 as stated: in every state in which the socket is resumed and not
\* paused again, conn.reader is non-null.
C25_FlowingImpliesReader == flowing => conn.reader

\* C25: in every state in which the socket is resumed and not paused
\* again, and the stream has neither ended nor failed, a read is pending
\* and conn.reader is non-null; a "data" event is delivered only to a
\* pending read, which it settles with its chunk while it pauses the
\* socket, so that no chunk arrives while another waits for its read, and
\* the console.assert of the "data" handler never fails.
C25_FlowingAndReadableImpliesReader ==
    /\ []((flowing /\ Readable) => (conn.reader /\ rd.st = "pending"))
    /\ []("data: no reader" \notin log)
    /\ [][wire' # wire =>
             /\ conn.reader /\ rd.st = "pending"
             /\ rd' = [st |-> "ok",
                       data |-> SubSeq(wire, 1, Len(wire) - Len(wire'))]
             /\ ~flowing' /\ ~conn'.reader]_vars

\* The socket is resumed for a second read after a first chunk was
\* delivered and pushed.
C25_Witness ==
    /\ flowing /\ Readable
    /\ conn.reader
    /\ rd.st = "pending"
    /\ Len(Received) > 0
    /\ buf.length > 0

\* The bytes taken from the buffer so far are the first bytes of the
\* stream.
ConsumedIsPrefix == consumed = SubSeq(stream, 1, Len(consumed))

\* serveClient goes from its draining loop to the next iteration.
NextIteration == pc = "drain" /\ pc' = "collect"

\* collectMessage returns a header block.
Extraction == Len(extracted') = Len(extracted) + 1

\* C26: when serveClient goes on to its next iteration after a request
\* whose fixed-length reader has length N, the N bytes of the stream after
\* the header block were taken from the buffer, by the handler's response
\* or by the draining loop; nothing is taken between that and the next
\* extraction, which happens with no request in hand and takes the bytes
\* that follow those N in the stream.
C26_BodyDrainedBeforeNextHeader ==
    /\ [][NextIteration =>
             /\ HasReader
             /\ reqBody.remaining = 0
             /\ Len(produced) = reqBody.length
             /\ ConsumedIsPrefix
             /\ produced = SubSeq(stream, BodyStart + 1,
                                  BodyStart + reqBody.length)
             /\ Len(consumed) = BodyStart + reqBody.length]_vars
    /\ [][(pc \in {"collect", "hdr_read"} /\ ~Extraction) =>
             consumed' = consumed]_vars
    /\ [][Extraction =>
             /\ ~HasReader /\ produced = <<>>
             /\ ConsumedIsPrefix
             /\ Len(consumed') > Len(consumed)
             /\ consumed' = SubSeq(stream, 1, Len(consumed'))
             /\ EndsWith(consumed', CRLF \o CRLF)]_vars

\* The handler answered a request with a body of 8 bytes without reading
\* it, and the request that follows the body was extracted.
C26_Witness ==
    /\ Len(extracted) = 2
    /\ extracted[1].uri = B("/")
    /\ getField(extracted[1].headers, B("Content-Length")).value = B("8")
    /\ extracted[2].uri = B("/echo")
    /\ Len(consumed) = Len(stream)

\* 32, 64, 128, ...
RECURSIVE IsFloorTimesPowerOfTwo(_)
IsFloorTimesPowerOfTwo(cap) ==
    \/ cap = 32
    \/ cap > 32 /\ cap % 2 = 0 /\ IsFloorTimesPowerOfTwo(cap \div 2)

Capacity == Len(buf.data)

\* C27 as stated: after any pushes and pops the length is at most the
\* capacity and the capacity is 32 times a power of two.
C27_CapacityIsFloorTimesPowerOfTwo ==
    /\ buf.length <= Capacity
    /\ IsFloorTimesPowerOfTwo(Capacity)

\* C27: after any pushes and pops the length is at most the capacity; the
\* capacity is 0 as long as no byte was pushed and 32 times a power of two
\* from the first byte pushed on; it never shrinks, so that it is at least
\* the greatest length the buffer ever had.
C27_CapacityIsZeroOrFloorTimesPowerOfTwo ==
    /\ [](buf.length <= Capacity)
    /\ [](IF Len(consumed) + Len(queue) = 0
          THEN Capacity = 0
          ELSE IsFloorTimesPowerOfTwo(Capacity))
    /\ [][Len(buf'.data) >= Capacity]_vars

\* The capacity grew to 64 and stays there after pops left fewer than 32
\* bytes in the buffer.
C27_Witness ==
    /\ pc = "buf"
    /\ Capacity = 64
    /\ buf.length > 0 /\ buf.length < 32
    /\ Len(consumed) > 32
    /\ call.op = "pop"

\* The positions (from 0) of the CR and LF bytes of b at or after start.
BreakPositions(b, start) ==
    {i \in start..(Len(b) - 1) : b[i + 1] \in {CR, LF}}

\* The earliest delimiter at or after start: a CRLF of 2 bytes when the
\* first CR or LF is a CR followed by a LF, that CR or LF alone otherwise.
EarliestDelimiter(b, start) ==
    IF BreakPositions(b, start) = {} THEN <<-1, 0>>
    ELSE LET i == SetMin(BreakPositions(b, start))
         IN IF b[i + 1] = CR /\ i + 2 <= Len(b) /\ b[i + 2] = LF
            THEN <<i, 2>>
            ELSE <<i, 1>>

\* C28: at each scan position findDelimiter returns the earliest
\* delimiter: a CRLF, as one delimiter of 2 bytes, only when no bare CR
\* and no bare LF comes before it; otherwise the earliest bare CR or bare
\* LF, as a delimiter of 1 byte.
C28_EarliestDelimiterIsTaken ==
    pc = "done" => ret = EarliestDelimiter(call.buf, call.start)

\* The body bytes written from write j on, up to the next header or the
\* last write.
RECURSIVE BodyLenFrom(_)
BodyLenFrom(j) ==
    IF j > Len(written) \/ written[j].kind = "header" THEN 0
    ELSE Len(written[j].data) + BodyLenFrom(j + 1)

\* The response whose header is write i has all the body bytes its
\* Content-Length declares.
ResponseComplete(i) == BodyLenFrom(i + 1) = written[i].length

\* The last header written, 0 when there is none.
LastHeader == CHOOSE i \in HeaderWrites \cup {0} : \A j \in HeaderWrites : j <= i

\* No response is cut short by what is written so far.
AtMessageBoundary == HeaderWrites = {} \/ ResponseComplete(LastHeader)

\* C29: what is written on a connection starts with a header; a header is
\* followed by body bytes of its own response only, never more than the
\* length it declares, and every header but the last is followed by
\* exactly that many before the next header, that of the error response
\* included; and an HTTPError is thrown only by serveClient outside
\* writeHTTPRes, when the last response written is complete.
C29_ResponsesNotInterleaved ==
    /\ [](written # <<>> => written[1].kind = "header")
    /\ [](\A i \in HeaderWrites :
             /\ BodyLenFrom(i + 1) <= written[i].length
             /\ i # LastHeader => ResponseComplete(i)
             /\ \A j \in (i + 1)..Len(written) :
                    (\A k \in (i + 1)..j : written[k].kind = "body") =>
                        written[j].statusCode = written[i].statusCode)
    /\ [][(error'.kind = "HTTPError" /\ error.kind # "HTTPError") =>
             /\ ctx = "serve"
             /\ pc \in {"collect", "hdr_read", "dispatch"}
             /\ AtMessageBoundary
             /\ written' = written]_vars

\* A response with a body was written whole, then the header and the body
\* of an error response.
C29_Witness ==
    /\ Cardinality(HeaderWrites) = 2
    /\ \A i \in HeaderWrites : ResponseComplete(i) /\ written[i].length > 0
    /\ written[1].statusCode = 200
    /\ written[LastHeader].statusCode = error.statusCode
    /\ error.kind = "HTTPError"

====
